---- MODULE Spec2Model ----
(***************************************************************************)
(* A model of ai-dead-code (src/index.js): the declaration and import      *)
(* extractors, the cross-file usage resolution and the two passes of       *)
(* main().                                                                 *)
(*                                                                         *)
(* Source text is modelled at character level: a text is a sequence of     *)
(* one-character strings, and every regular expression of the source is    *)
(* an operator that matches it the way the JavaScript engine does          *)
(* (leftmost match, greedy quantifiers, global scans resuming after the    *)
(* previous match).                                                        *)
(***************************************************************************)
EXTENDS Integers, Sequences, FiniteSets, TLC

(***************************************************************************)
(* Characters and character classes                                        *)
(***************************************************************************)

\* \w of the regular expressions: [A-Za-z0-9_]
WordChars ==
  { "a","b","c","d","e","f","g","h","i","j","k","l","m",
    "n","o","p","q","r","s","t","u","v","w","x","y","z",
    "A","B","C","D","E","F","G","H","I","J","K","L","M",
    "N","O","P","Q","R","S","T","U","V","W","X","Y","Z",
    "0","1","2","3","4","5","6","7","8","9","_" }

\* \s of the regular expressions (the whitespace the inputs use)
SpaceChars == { " ", "\n", "\t" }

UpperLetters ==
  << "A","B","C","D","E","F","G","H","I","J","K","L","M",
     "N","O","P","Q","R","S","T","U","V","W","X","Y","Z" >>

LowerLetters ==
  << "a","b","c","d","e","f","g","h","i","j","k","l","m",
     "n","o","p","q","r","s","t","u","v","w","x","y","z" >>

\* the case folding of a regular expression with the i flag
ToLower(c) ==
  IF \E k \in 1..26 : UpperLetters[k] = c
  THEN LowerLetters[CHOOSE k \in 1..26 : UpperLetters[k] = c]
  ELSE c

IsWordAt(s, i) == i >= 1 /\ i <= Len(s) /\ s[i] \in WordChars

IsSpaceAt(s, i) == i >= 1 /\ i <= Len(s) /\ s[i] \in SpaceChars

\* the literal lit occurs in s starting at position i
LitAt(s, i, lit) ==
  /\ i >= 1
  /\ i + Len(lit) - 1 <= Len(s)
  /\ \A k \in 1..Len(lit) : s[i + k - 1] = lit[k]

\* \s* from position i: the first position at or after i that holds no whitespace
RECURSIVE SkipWs(_, _)
SkipWs(s, i) == IF IsSpaceAt(s, i) THEN SkipWs(s, i + 1) ELSE i

\* \w* from position i: the first position at or after i that holds no word character
RECURSIVE WordEnd(_, _)
WordEnd(s, i) == IF IsWordAt(s, i) THEN WordEnd(s, i + 1) ELSE i

\* the least element of a non-empty set of positions
Min(S) == CHOOSE x \in S : \A y \in S : x <= y

\* the first position at or after i that holds character c, 0 when there is none
IndexOf(s, i, c) ==
  IF \E j \in i..Len(s) : s[j] = c
  THEN Min({ j \in i..Len(s) : s[j] = c })
  ELSE 0

\* the start of the maximal whitespace run that ends at position i
RECURSIVE WsRunStart(_, _)
WsRunStart(s, i) == IF IsSpaceAt(s, i - 1) THEN WsRunStart(s, i - 1) ELSE i

\* \b at the gap in front of position p
WordBoundary(s, p) == IsWordAt(s, p - 1) # IsWordAt(s, p)

\* the last position of s, from j down to a, that holds no whitespace
RECURSIVE TrimEnd(_, _, _)
TrimEnd(s, a, j) == IF j >= a /\ IsSpaceAt(s, j) THEN TrimEnd(s, a, j - 1) ELSE j

\* String.prototype.trim
Trim(s) == SubSeq(s, SkipWs(s, 1), TrimEnd(s, SkipWs(s, 1), Len(s)))

\* String.prototype.split(c) for a one-character separator
RECURSIVE SplitChar(_, _)
SplitChar(s, c) ==
  LET j == IndexOf(s, 1, c)
  IN  IF j = 0 THEN << s >>
      ELSE << SubSeq(s, 1, j - 1) >> \o SplitChar(SubSeq(s, j + 1, Len(s)), c)

\* keywords and literals of the regular expressions
kwExport   == << "e","x","p","o","r","t" >>
kwDefault  == << "d","e","f","a","u","l","t" >>
kwConst    == << "c","o","n","s","t" >>
kwLet      == << "l","e","t" >>
kwVar      == << "v","a","r" >>
kwFunction == << "f","u","n","c","t","i","o","n" >>
kwClass    == << "c","l","a","s","s" >>
kwAsync    == << "a","s","y","n","c" >>
kwImport   == << "i","m","p","o","r","t" >>
kwFrom     == << "f","r","o","m" >>
kwAs       == << "a","s" >>
kwRequire  == << "r","e","q","u","i","r","e","(" >>
kwArrow    == << "=", ">" >>

NoMatch == [end |-> 0, name |-> << >>]

Matched(e, n) == [end |-> e, name |-> n]

\* \s+(\w+) from position p: the captured word and the position after it
WsThenWord(s, p) ==
  IF IsSpaceAt(s, p) /\ IsWordAt(s, SkipWs(s, p))
  THEN Matched(WordEnd(s, SkipWs(s, p)),
               SubSeq(s, SkipWs(s, p), WordEnd(s, SkipWs(s, p)) - 1))
  ELSE NoMatch

\* async\s+function at position p: the position after it, 0 when absent
AsyncFunctionEnd(s, p) ==
  IF /\ LitAt(s, p, kwAsync)
     /\ IsSpaceAt(s, p + 5)
     /\ LitAt(s, SkipWs(s, p + 5), kwFunction)
  THEN SkipWs(s, p + 5) + 8
  ELSE 0

\* (?:const|let|var) at position p: the position after it, 0 when absent
VarKwEnd(s, p) ==
  IF LitAt(s, p, kwConst) THEN p + 5
  ELSE IF LitAt(s, p, kwLet) THEN p + 3
  ELSE IF LitAt(s, p, kwVar) THEN p + 3
  ELSE 0

\* (?:const|let|var|function|class|async\s+function) at position p
DeclKwEnd(s, p) ==
  IF VarKwEnd(s, p) # 0 THEN VarKwEnd(s, p)
  ELSE IF LitAt(s, p, kwFunction) THEN p + 8
  ELSE IF LitAt(s, p, kwClass) THEN p + 5
  ELSE AsyncFunctionEnd(s, p)

\* (?:function|class|async\s+function) at position p
DefaultKwEnd(s, p) ==
  IF LitAt(s, p, kwFunction) THEN p + 8
  ELSE IF LitAt(s, p, kwClass) THEN p + 5
  ELSE AsyncFunctionEnd(s, p)

(***************************************************************************)
(* The regular expressions of the extractors, each matched at one start    *)
(* position: the result holds the position after the match (0: no match)   *)
(* and the captured group.  A regular expression is matched in stages,     *)
(* each stage an operator that takes what the stage before it matched.     *)
(***************************************************************************)

\* \s+(\w+) after a keyword that ends in front of position k (0: no keyword)
WordAfterKw(s, k) == IF k # 0 THEN WsThenWord(s, k) ELSE NoMatch

\* /export\s+(?:const|let|var|function|class|async\s+function)\s+(\w+)/
namedExportRegex(s, i) ==
  IF LitAt(s, i, kwExport) /\ IsSpaceAt(s, i + 6)
  THEN WordAfterKw(s, DeclKwEnd(s, SkipWs(s, i + 6)))
  ELSE NoMatch

\* ([^}]+)\} from position p + 1, where q is the position of the first "}"
BraceGroupTo(s, p, q) ==
  IF q > p + 1 THEN Matched(q + 1, SubSeq(s, p + 1, q - 1)) ELSE NoMatch

\* \{([^}]+)\} at position p: the captured group is the text between the braces
BraceGroup(s, p) ==
  IF LitAt(s, p, << "{" >>) THEN BraceGroupTo(s, p, IndexOf(s, p + 1, "}")) ELSE NoMatch

\* /export\s*\{([^}]+)\}/
exportListRegex(s, i) ==
  IF LitAt(s, i, kwExport) THEN BraceGroup(s, SkipWs(s, i + 6)) ELSE NoMatch

\* default\s+(?:function|class|async\s+function)\s+(\w+) at position p
DefaultAfterExport(s, p) ==
  IF LitAt(s, p, kwDefault) /\ IsSpaceAt(s, p + 7)
  THEN WordAfterKw(s, DefaultKwEnd(s, SkipWs(s, p + 7)))
  ELSE NoMatch

\* /export\s+default\s+(?:function|class|async\s+function)\s+(\w+)/
defaultNamedRegex(s, i) ==
  IF LitAt(s, i, kwExport) /\ IsSpaceAt(s, i + 6)
  THEN DefaultAfterExport(s, SkipWs(s, i + 6))
  ELSE NoMatch

\* the lookbehind (?<!export\s+) of funcRegex: TRUE when "export" and whitespace
\* end right in front of position i
PrecededByExport(s, i) ==
  /\ IsSpaceAt(s, i - 1)
  /\ LitAt(s, WsRunStart(s, i - 1) - 6, kwExport)

\* \s*\( after the captured word w
ParenAfter(s, w) ==
  IF w.end # 0 /\ LitAt(s, SkipWs(s, w.end), << "(" >>)
  THEN Matched(SkipWs(s, w.end) + 1, w.name)
  ELSE NoMatch

\* /(?<!export\s+)function\s+(\w+)\s*\(/
funcRegex(s, i) ==
  IF LitAt(s, i, kwFunction) /\ ~PrecededByExport(s, i)
  THEN ParenAfter(s, WsThenWord(s, i + 8))
  ELSE NoMatch

\* \s*=\s* after the captured word w
EqualsAfter(s, w) ==
  IF w.end # 0 /\ LitAt(s, SkipWs(s, w.end), << "=" >>)
  THEN Matched(SkipWs(s, SkipWs(s, w.end) + 1), w.name)
  ELSE NoMatch

\* (?:const|let|var)\s+(\w+)\s*=\s* : the bound name and the position after
\* the whitespace that follows the equals sign
VarBinding(s, i) == EqualsAfter(s, WordAfterKw(s, VarKwEnd(s, i)))

\* \s*=> after the ")" at position close (0: no ")")
ArrowAfterParen(s, name, close) ==
  IF close # 0 /\ LitAt(s, SkipWs(s, close + 1), kwArrow)
  THEN Matched(SkipWs(s, close + 1) + 2, name)
  ELSE NoMatch

\* \([^)]*\)\s*=> at position open
ParenArrowAt(s, name, open) ==
  IF LitAt(s, open, << "(" >>)
  THEN ArrowAfterParen(s, name, IndexOf(s, open + 1, ")"))
  ELSE NoMatch

\* (?:async\s*)?\([^)]*\)\s*=> after the binding b
ParenArrow(s, b) ==
  IF b.end = 0 THEN NoMatch
  ELSE ParenArrowAt(s, b.name,
                    IF LitAt(s, b.end, kwAsync) THEN SkipWs(s, b.end + 5) ELSE b.end)

\* /(?:const|let|var)\s+(\w+)\s*=\s*(?:async\s*)?\([^)]*\)\s*=>/
arrowRegex(s, i) == ParenArrow(s, VarBinding(s, i))

\* \w+\s*=> at position p: the position after it, 0 when absent
BareParamArrowEnd(s, p) ==
  IF IsWordAt(s, p) /\ LitAt(s, SkipWs(s, WordEnd(s, p)), kwArrow)
  THEN SkipWs(s, WordEnd(s, p)) + 2
  ELSE 0

\* async\s*\w+\s*=> at position p: the position after it, 0 when absent
AsyncBareParamArrowEnd(s, p) ==
  IF LitAt(s, p, kwAsync) THEN BareParamArrowEnd(s, SkipWs(s, p + 5)) ELSE 0

\* (?:async\s*)?\w+\s*=> after the binding b: the optional group is tried
\* first, and the engine backtracks to the match without it
BareArrow(s, b) ==
  IF b.end = 0 THEN NoMatch
  ELSE IF AsyncBareParamArrowEnd(s, b.end) # 0
       THEN Matched(AsyncBareParamArrowEnd(s, b.end), b.name)
  ELSE IF BareParamArrowEnd(s, b.end) # 0
       THEN Matched(BareParamArrowEnd(s, b.end), b.name)
  ELSE NoMatch

\* /(?:const|let|var)\s+(\w+)\s*=\s*(?:async\s*)?\w+\s*=>/
arrowSimpleRegex(s, i) == BareArrow(s, VarBinding(s, i))

\* \s*from after the captured group g
FromAfter(s, g) ==
  IF g.end # 0 /\ LitAt(s, SkipWs(s, g.end), kwFrom)
  THEN Matched(SkipWs(s, g.end) + 4, g.name)
  ELSE NoMatch

\* /import\s*\{([^}]+)\}\s*from/
namedImportRegex(s, i) ==
  IF LitAt(s, i, kwImport) THEN FromAfter(s, BraceGroup(s, SkipWs(s, i + 6))) ELSE NoMatch

\* \s+from after the captured word w
ThenFrom(s, w) ==
  IF w.end # 0 /\ IsSpaceAt(s, w.end) /\ LitAt(s, SkipWs(s, w.end), kwFrom)
  THEN Matched(SkipWs(s, w.end) + 4, w.name)
  ELSE NoMatch

\* /import\s+(\w+)\s+from/
defaultImportRegex(s, i) ==
  IF LitAt(s, i, kwImport) THEN ThenFrom(s, WsThenWord(s, i + 6)) ELSE NoMatch

\* as\s+(\w+)\s+from at position a
NamespaceAfterStar(s, a) ==
  IF LitAt(s, a, kwAs) THEN ThenFrom(s, WsThenWord(s, a + 2)) ELSE NoMatch

\* \*\s+as\s+(\w+)\s+from at position p
NamespaceStar(s, p) ==
  IF LitAt(s, p, << "*" >>) /\ IsSpaceAt(s, p + 1)
  THEN NamespaceAfterStar(s, SkipWs(s, p + 1))
  ELSE NoMatch

\* /import\s+\*\s+as\s+(\w+)\s+from/
namespaceImportRegex(s, i) ==
  IF LitAt(s, i, kwImport) /\ IsSpaceAt(s, i + 6)
  THEN NamespaceStar(s, SkipWs(s, i + 6))
  ELSE NoMatch

\* a match of requireRegex: group 1 in braces (the text between the braces),
\* group 2 in word
NoRequire == [end |-> 0, braces |-> << >>, word |-> << >>]

\* (?:\{([^}]+)\}|(\w+)) at position p
RequireTarget(s, p) ==
  IF BraceGroup(s, p).end # 0
  THEN [end |-> BraceGroup(s, p).end, braces |-> BraceGroup(s, p).name, word |-> << >>]
  ELSE IF IsWordAt(s, p)
  THEN [end |-> WordEnd(s, p), braces |-> << >>,
        word |-> SubSeq(s, p, WordEnd(s, p) - 1)]
  ELSE NoRequire

\* require\( at position r, after the target t
RequireCall(s, t, r) ==
  IF LitAt(s, r, kwRequire) THEN [t EXCEPT !.end = r + 8] ELSE NoRequire

\* \s*=\s*require\( after the target t
RequireEquals(s, t) ==
  IF t.end # 0 /\ LitAt(s, SkipWs(s, t.end), << "=" >>)
  THEN RequireCall(s, t, SkipWs(s, SkipWs(s, t.end) + 1))
  ELSE NoRequire

\* \s+(?:\{([^}]+)\}|(\w+))\s*=\s*require\( after the keyword that ends in
\* front of position k
RequireAfterKw(s, k) ==
  IF k # 0 /\ IsSpaceAt(s, k)
  THEN RequireEquals(s, RequireTarget(s, SkipWs(s, k)))
  ELSE NoRequire

\* /(?:const|let|var)\s+(?:\{([^}]+)\}|(\w+))\s*=\s*require\(/
requireRegex(s, i) == RequireAfterKw(s, VarKwEnd(s, i))

\* one regular expression of the extractors, chosen by name
MatchAt(rx, s, i) ==
  CASE rx = "namedExport"     -> namedExportRegex(s, i)
    [] rx = "exportList"      -> exportListRegex(s, i)
    [] rx = "defaultNamed"    -> defaultNamedRegex(s, i)
    [] rx = "func"            -> funcRegex(s, i)
    [] rx = "arrow"           -> arrowRegex(s, i)
    [] rx = "arrowSimple"     -> arrowSimpleRegex(s, i)
    [] rx = "namedImport"     -> namedImportRegex(s, i)
    [] rx = "defaultImport"   -> defaultImportRegex(s, i)
    [] rx = "namespaceImport" -> namespaceImportRegex(s, i)
    [] rx = "require"         -> requireRegex(s, i)

\* while ((match = regex.exec(content)) !== null): the successive matches of
\* a global regular expression, each search resuming where the previous
\* match ended
\* starts holds the positions at which the regular expression matches
RECURSIVE ExecFrom(_, _, _, _)
ExecNext(rx, s, starts, m) == << m >> \o ExecFrom(rx, s, starts, m.end)

ExecFrom(rx, s, starts, i) ==
  IF \A j \in starts : j < i THEN << >>
  ELSE ExecNext(rx, s, starts, MatchAt(rx, s, Min({ j \in starts : j >= i })))

ExecAll(rx, s, i) ==
  ExecFrom(rx, s, { j \in i..Len(s) : MatchAt(rx, s, j).end # 0 }, i)

Names(matches) == [k \in 1..Len(matches) |-> matches[k].name]

\* match[1] of the successive matches
Captures(rx, s) == Names(ExecAll(rx, s, 1))

(***************************************************************************)
(* String helpers of the extractors                                        *)
(***************************************************************************)

\* the leftmost match of /\s+as\s+/ that starts at or after position i:
\* its first position, 0 when there is none
AsSepAt(s, j) ==
  /\ IsSpaceAt(s, j)
  /\ LitAt(s, SkipWs(s, j), kwAs)
  /\ IsSpaceAt(s, SkipWs(s, j) + 2)

AsSepStart(s, i) ==
  IF \E j \in i..Len(s) : AsSepAt(s, j)
  THEN Min({ j \in i..Len(s) : AsSepAt(s, j) })
  ELSE 0

\* trimmed.split(/\s+as\s+/)
RECURSIVE SplitAs(_)
SplitAsAt(s, j) ==
  IF j = 0 THEN << s >>
  ELSE << SubSeq(s, 1, j - 1) >>
       \o SplitAs(SubSeq(s, SkipWs(s, SkipWs(s, j) + 2), Len(s)))

SplitAs(s) == SplitAsAt(s, AsSepStart(s, 1))

\* split(/\s*:\s*/)[0]: the text in front of the leftmost match of /\s*:\s*/
BeforeColon(s) ==
  LET c == IndexOf(s, 1, ":")
  IN  IF c = 0 THEN s ELSE SubSeq(s, 1, WsRunStart(s, c) - 1)

\* Array.prototype.filter(Boolean) on strings: the empty string is dropped
RECURSIVE FilterNonEmpty(_)
FilterNonEmpty(q) ==
  IF q = << >> THEN << >>
  ELSE (IF Head(q) = << >> THEN << >> ELSE << Head(q) >>) \o FilterNonEmpty(Tail(q))

\* the names of one export list: "name as alias" gives the original name
OriginalNames(parts) == [k \in 1..Len(parts) |-> Trim(SplitAs(Trim(parts[k]))[1])]

NotDefault(n) == n # kwDefault

ExportListNames(group) ==
  SelectSeq(FilterNonEmpty(OriginalNames(SplitChar(group, ","))), NotDefault)

\* the names of one import list: "name as alias" gives the alias
Last(q) == q[Len(q)]

AliasNames(parts) == [k \in 1..Len(parts) |-> Trim(Last(SplitAs(Trim(parts[k]))))]

ImportListNames(group) == FilterNonEmpty(AliasNames(SplitChar(group, ",")))

\* the names of one destructured require
BindingNames(parts) == [k \in 1..Len(parts) |-> BeforeColon(Trim(parts[k]))]

RequireListNames(group) == FilterNonEmpty(BindingNames(SplitChar(group, ",")))

RECURSIVE Flatten(_)
Flatten(qq) == IF qq = << >> THEN << >> ELSE Head(qq) \o Flatten(Tail(qq))

Range(q) == { q[k] : k \in 1..Len(q) }

Decl(n, t, f) == [name |-> n, type |-> t, file |-> f]

(***************************************************************************)
(* The extractors                                                          *)
(***************************************************************************)

Decls(names, t, f) == [k \in 1..Len(names) |-> Decl(names[k], t, f)]

\* the names of the export lists of the successive matches
ListedNames(groups) == Flatten([k \in 1..Len(groups) |-> ExportListNames(groups[k])])

extractExports(content, filePath) ==
  Decls(Captures("namedExport", content), "named", filePath)
  \o Decls(ListedNames(Captures("exportList", content)), "named", filePath)
  \o Decls(Captures("defaultNamed", content), "default", filePath)

extractFunctions(content, filePath) ==
  Decls(Captures("func", content), "function", filePath)
  \o Decls(Captures("arrow", content), "arrow", filePath)
  \o Decls(Captures("arrowSimple", content), "arrow", filePath)

\* the names of one match of requireRegex
RequireNames(m) ==
  IF m.braces # << >> THEN Range(RequireListNames(m.braces))
  ELSE IF m.word # << >> THEN { m.word }
  ELSE { }

NamedImports(groups) == UNION { Range(ImportListNames(groups[k])) : k \in 1..Len(groups) }

RequireImports(reqs) == UNION { RequireNames(reqs[k]) : k \in 1..Len(reqs) }

findImports(content) ==
  NamedImports(Captures("namedImport", content))
  \cup Range(Captures("defaultImport", content))
  \cup Range(Captures("namespaceImport", content))
  \cup RequireImports(ExecAll("require", content, 1))

(***************************************************************************)
(* The regular expressions main() builds from a declared name.  A name is  *)
(* matched literally: the names of the inputs hold word characters only.   *)
(***************************************************************************)

\* new RegExp(`\\b${name}\\b`).test(content)
WordOccurs(name, content) ==
  \E i \in 1..Len(content) :
    /\ WordBoundary(content, i)
    /\ LitAt(content, i, name)
    /\ WordBoundary(content, i + Len(name))

\* new RegExp(`\\b${name}\\s*\\(`, 'g') at position i: the position after the
\* match, 0 when there is none
funcNameRegex(name, content, i) ==
  IF /\ WordBoundary(content, i)
     /\ LitAt(content, i, name)
     /\ LitAt(content, SkipWs(content, i + Len(name)), << "(" >>)
  THEN SkipWs(content, i + Len(name)) + 1
  ELSE 0

\* new RegExp(`[^\\w]${name}[^\\w(]`, 'g') at position i
refRegex(name, content, i) ==
  IF /\ i <= Len(content) /\ ~IsWordAt(content, i)
     /\ LitAt(content, i + 1, name)
     /\ i + 1 + Len(name) <= Len(content)
     /\ content[i + 1 + Len(name)] \notin (WordChars \cup { "(" })
  THEN i + 2 + Len(name)
  ELSE 0

NameMatchAt(rx, name, content, i) ==
  CASE rx = "funcName" -> funcNameRegex(name, content, i)
    [] rx = "ref"      -> refRegex(name, content, i)

\* content.match(regex) with the g flag: the number of successive matches
\* (0 stands for the null of no match)
RECURSIVE MatchCountFrom(_, _, _, _, _)
MatchCountFrom(rx, name, content, starts, i) ==
  IF \A j \in starts : j < i THEN 0
  ELSE 1 + MatchCountFrom(rx, name, content, starts,
                          NameMatchAt(rx, name, content, Min({ j \in starts : j >= i })))

MatchCount(rx, name, content, i) ==
  MatchCountFrom(rx, name, content,
                 { j \in i..Len(content) : NameMatchAt(rx, name, content, j) # 0 }, i)

(***************************************************************************)
(* Entry points                                                            *)
(***************************************************************************)

Fold(s, ignoreCase) == IF ignoreCase THEN [k \in 1..Len(s) |-> ToLower(s[k])] ELSE s

\* \.[jt]sx?$ at position d of path p
ExtensionAt(p, d) ==
  /\ LitAt(p, d, << "." >>)
  /\ (LitAt(p, d + 1, << "j" >>) \/ LitAt(p, d + 1, << "t" >>))
  /\ LitAt(p, d + 2, << "s" >>)
  /\ \/ d + 2 = Len(p)
     \/ LitAt(p, d + 3, << "x" >>) /\ d + 3 = Len(p)

\* /<stem>\.[jt]sx?$/ somewhere in path p
StemThenExtension(p, stem) ==
  \E i \in 1..Len(p) : LitAt(p, i, stem) /\ ExtensionAt(p, i + Len(stem))

\* relPath.match(/<stem>\.[jt]sx?$/), with the i flag when ignoreCase
EntryRegex(relPath, stem, ignoreCase) == StemThenExtension(Fold(relPath, ignoreCase), stem)

stemIndex == << "i","n","d","e","x" >>
stemMain  == << "m","a","i","n" >>
stemApp   == << "a","p","p" >>

\* IsEntryPoint without the main pattern
IsEntryPoint_NoMain(relPath) ==
  \/ EntryRegex(relPath, stemIndex, FALSE)
  \/ EntryRegex(relPath, stemApp, TRUE)

\* the test of line 204
IsEntryPoint(relPath) ==
  \/ EntryRegex(relPath, stemIndex, FALSE)
  \/ EntryRegex(relPath, stemMain, FALSE)
  \/ EntryRegex(relPath, stemApp, TRUE)

\* path.relative(dir, file) for a file below dir; dir "." is the working directory
PathRelative(dir, file) ==
  IF dir # << "." >> /\ LitAt(file, 1, dir \o << "/" >>)
  THEN SubSeq(file, Len(dir) + 2, Len(file))
  ELSE file

(***************************************************************************)
(* The source files the scanned tree may hold: path, text, and whether     *)
(* readFileSync succeeds on it.                                            *)
(***************************************************************************)

\* src/util.ts
pathUtil ==
  << "s","r","c","/","u","t","i","l",".","t","s" >>

\*   export function helper(){ return 1; }
textUtil ==
  << "e","x","p","o","r","t"," ","f","u","n","c","t","i","o","n"," ",
     "h","e","l","p","e","r","(",")","{"," ","r","e","t","u","r","n",
     " ","1",";"," ","}" >>

\* src/main.ts
pathMain ==
  << "s","r","c","/","m","a","i","n",".","t","s" >>

\*   export const unused = 2;
textMain ==
  << "e","x","p","o","r","t"," ","c","o","n","s","t"," ","u","n","u",
     "s","e","d"," ","="," ","2",";" >>

\* src/a.js
pathA ==
  << "s","r","c","/","a",".","j","s" >>

\*   import { helper as h } from './util';
\*   h();
textA ==
  << "i","m","p","o","r","t"," ","{"," ","h","e","l","p","e","r"," ",
     "a","s"," ","h"," ","}"," ","f","r","o","m"," ","'",".","/","u",
     "t","i","l","'",";","\n","h","(",")",";","\n" >>

\* src/b.js
pathB ==
  << "s","r","c","/","b",".","j","s" >>

\*   function foo() {}
\*   function bar () {}
\*   const baz = () => 1;
\*   const qux = x => x;
textB ==
  << "f","u","n","c","t","i","o","n"," ","f","o","o","(",")"," ","{",
     "}","\n","f","u","n","c","t","i","o","n"," ","b","a","r"," ","(",
     ")"," ","{","}","\n","c","o","n","s","t"," ","b","a","z"," ","=",
     " ","(",")"," ","=",">"," ","1",";","\n","c","o","n","s","t"," ",
     "q","u","x"," ","="," ","x"," ","=",">"," ","x",";","\n" >>

\* src/c.js
pathC ==
  << "s","r","c","/","c",".","j","s" >>

\*   function foo() {}
\*   foo();
textC ==
  << "f","u","n","c","t","i","o","n"," ","f","o","o","(",")"," ","{",
     "}","\n","f","o","o","(",")",";","\n" >>

\* src/d.js
pathD ==
  << "s","r","c","/","d",".","j","s" >>

\*   export default function run() {}
textD ==
  << "e","x","p","o","r","t"," ","d","e","f","a","u","l","t"," ","f",
     "u","n","c","t","i","o","n"," ","r","u","n","(",")"," ","{","}",
     "\n" >>

\* src/App.tsx
pathApp ==
  << "s","r","c","/","A","p","p",".","t","s","x" >>

\*   export default function App() { return helpers; }
textApp ==
  << "e","x","p","o","r","t"," ","d","e","f","a","u","l","t"," ","f",
     "u","n","c","t","i","o","n"," ","A","p","p","(",")"," ","{"," ",
     "r","e","t","u","r","n"," ","h","e","l","p","e","r","s",";"," ",
     "}","\n" >>

\* src/e.js
pathE ==
  << "s","r","c","/","e",".","j","s" >>

\*   const { helper: hp } = require('./util');
\*   hp();
textE ==
  << "c","o","n","s","t"," ","{"," ","h","e","l","p","e","r",":"," ",
     "h","p"," ","}"," ","="," ","r","e","q","u","i","r","e","(","'",
     ".","/","u","t","i","l","'",")",";","\n","h","p","(",")",";","\n" >>

\* src/x.ts
pathX ==
  << "s","r","c","/","x",".","t","s" >>

\*   import { helper } from './util';
\*   export const ghost = 1;
\*   function spook() {}
textX ==
  << "i","m","p","o","r","t"," ","{"," ","h","e","l","p","e","r"," ",
     "}"," ","f","r","o","m"," ","'",".","/","u","t","i","l","'",";",
     "\n","e","x","p","o","r","t"," ","c","o","n","s","t"," ","g","h",
     "o","s","t"," ","="," ","1",";","\n","f","u","n","c","t","i","o",
     "n"," ","s","p","o","o","k","(",")"," ","{","}","\n" >>

\* src/lib.js
pathLib ==
  << "s","r","c","/","l","i","b",".","j","s" >>

\*   const answer = 42;
\*   console.log(answer);
\*   export { answer as result };
textLib ==
  << "c","o","n","s","t"," ","a","n","s","w","e","r"," ","="," ","4",
     "2",";","\n","c","o","n","s","o","l","e",".","l","o","g","(","a",
     "n","s","w","e","r",")",";","\n","e","x","p","o","r","t"," ","{",
     " ","a","n","s","w","e","r"," ","a","s"," ","r","e","s","u","l",
     "t"," ","}",";","\n" >>

SourceFile(p, t, r) == [path |-> p, text |-> t, readable |-> r]

Library ==
  << SourceFile(pathUtil, textUtil, TRUE),
     SourceFile(pathMain, textMain, TRUE),
     SourceFile(pathA, textA, TRUE),
     SourceFile(pathB, textB, TRUE),
     SourceFile(pathC, textC, TRUE),
     SourceFile(pathD, textD, TRUE),
     SourceFile(pathApp, textApp, TRUE),
     SourceFile(pathE, textE, TRUE),
     SourceFile(pathX, textX, FALSE),
     SourceFile(pathLib, textLib, TRUE) >>

\* the largest number of files in the scanned tree
MaxFiles == 2

OnDisk(path) == Library[CHOOSE k \in 1..Len(Library) : Library[k].path = path]

dirDot == << "." >>
dirSrc == << "s","r","c" >>
outputPath == << "o","u","t",".","j","s","o","n" >>

\* the values of --dir, --exports-only and --output; an absent --output is << >>
Options ==
  [dir : { dirDot, dirSrc }, exportsOnly : BOOLEAN, output : { << >>, outputPath }]

(***************************************************************************)
(* State                                                                   *)
(***************************************************************************)
VARIABLES
  disk,             \* the paths of the source files below the scan root
  opts,             \* the parsed command line
  files,            \* main: the result of scanFiles()
  allExports,       \* main: the export table
  allFunctions,     \* main: the function table
  fileContents,     \* main: the Map from file to text, in insertion order
  unusedExports,    \* main: the unused-exports list
  unusedFunctions,  \* main: the unused-functions list
  report,           \* the file at opts.output: << >> until it is written
  pc,               \* the position of main
  idx,              \* the position of the loop main is in
  binding,          \* the import statement given to findImports on its own
  imports           \* the result of findImports on its own

vars ==
  << disk, opts, files, allExports, allFunctions, fileContents,
     unusedExports, unusedFunctions, report, pc, idx, binding, imports >>

mainVars ==
  << disk, opts, files, allExports, allFunctions, fileContents,
     unusedExports, unusedFunctions, report >>

NoBinding == [form |-> "none"]

\* the orderings of a set of paths: glob reports the files in an order the
\* source does not fix
Orderings(S) ==
  { q \in [1..Cardinality(S) -> S] : \A a, b \in 1..Cardinality(S) : a # b => q[a] # q[b] }

Init ==
  /\ disk \in { S \in SUBSET Range([k \in 1..Len(Library) |-> Library[k].path]) :
                  Cardinality(S) \in 1..MaxFiles }
  /\ opts \in Options
  /\ files = << >>
  /\ allExports = << >>
  /\ allFunctions = << >>
  /\ fileContents = << >>
  /\ unusedExports = << >>
  /\ unusedFunctions = << >>
  /\ report = << >>
  /\ pc = "scan"
  /\ idx = 1
  /\ binding = NoBinding
  /\ imports = { }

(***************************************************************************)
(* main, pass one                                                          *)
(***************************************************************************)

\* const files = await scanFiles()
ScanFiles ==
  /\ pc = "scan"
  /\ files' \in Orderings(disk)
  /\ pc' = "read"
  /\ idx' = 1
  /\ UNCHANGED << disk, opts, allExports, allFunctions, fileContents,
                  unusedExports, unusedFunctions, report, binding, imports >>

\* fs.readFileSync(file, 'utf-8'): the text, or an exception
readFileSync(file) ==
  [threw |-> ~OnDisk(file).readable, content |-> OnDisk(file).text]

\* Map.prototype.set
MapSet(m, file, content) ==
  IF \E k \in 1..Len(m) : m[k].file = file
  THEN [k \in 1..Len(m) |->
          IF m[k].file = file THEN [file |-> file, content |-> content] ELSE m[k]]
  ELSE Append(m, [file |-> file, content |-> content])

\* Map.prototype.get; << >> stands for undefined
MapGet(m, file) ==
  IF \E k \in 1..Len(m) : m[k].file = file
  THEN m[CHOOSE k \in 1..Len(m) : m[k].file = file].content
  ELSE << >>

\* line 183 without the test: functions are always collected
CollectsFunctions_Always(o) == TRUE

\* if (!opts.exportsOnly) of line 183
CollectsFunctions(o) == ~o.exportsOnly

\* TryRead that goes on with the text although readFileSync threw
TryRead_IgnoresThrow(t, file, r, o) ==
  [fileContents |-> MapSet(t.fileContents, file, r.content),
   allExports   |-> t.allExports \o extractExports(r.content, file),
   allFunctions |-> IF ~o.exportsOnly
                    THEN t.allFunctions \o extractFunctions(r.content, file)
                    ELSE t.allFunctions]

\* the body of the try block of lines 176-186 on tables t; an exception of
\* readFileSync leaves the block before anything is recorded
TryRead(t, file, r, o) ==
  IF r.threw THEN t
  ELSE [fileContents |-> MapSet(t.fileContents, file, r.content),
        allExports   |-> t.allExports \o extractExports(r.content, file),
        allFunctions |-> IF CollectsFunctions(o)
                         THEN t.allFunctions \o extractFunctions(r.content, file)
                         ELSE t.allFunctions]

\* one iteration of for (const file of files)
ReadFile ==
  /\ pc = "read"
  /\ idx <= Len(files)
  /\ \E t \in { TryRead([fileContents |-> fileContents, allExports |-> allExports,
                         allFunctions |-> allFunctions],
                        files[idx], readFileSync(files[idx]), opts) } :
       /\ fileContents' = t.fileContents
       /\ allExports' = t.allExports
       /\ allFunctions' = t.allFunctions
  /\ idx' = idx + 1
  /\ UNCHANGED << disk, opts, files, unusedExports, unusedFunctions, report, pc,
                  binding, imports >>

\* the first loop left after its first iteration
PassOneComplete_AfterFirst(fs, i) == i > 1

\* the first loop has gone through every file
PassOneComplete(fs, i) == i > Len(fs)

EndPassOne ==
  /\ pc = "read"
  /\ PassOneComplete(files, idx)
  /\ pc' = "exports"
  /\ idx' = 1
  /\ UNCHANGED << mainVars, binding, imports >>

(***************************************************************************)
(* main, pass two: exports                                                 *)
(***************************************************************************)

\* UsagesIn without the skip of the declaring file (lines 209 and 220)
UsagesIn_CountsSelf(exp, e) ==
  (IF exp.name \in findImports(e.content) THEN 1 ELSE 0)
  + (IF WordOccurs(exp.name, e.content) THEN 1 ELSE 0)

\* the usages one iteration of the loop of lines 208-224 adds for export exp
\* and Map entry e
UsagesIn(exp, e) ==
  IF e.file = exp.file THEN 0
  ELSE (IF exp.name \in findImports(e.content) THEN 1 ELSE 0)
       + (IF WordOccurs(exp.name, e.content) /\ e.file # exp.file THEN 1 ELSE 0)

\* totalUsages after the loop over fileContents
RECURSIVE TotalUsages(_, _)
TotalUsages(exp, m) ==
  IF m = << >> THEN 0 ELSE UsagesIn(exp, Head(m)) + TotalUsages(exp, Tail(m))

\* Array.prototype.push
Push(list, d) == Append(list, d)

\* whether the iteration for export exp (lines 200-229) pushes it
ExportIsUnused(exp, o, m) ==
  /\ ~IsEntryPoint(PathRelative(o.dir, exp.file))
  /\ TotalUsages(exp, m) = 0

\* one iteration of for (const exp of allExports)
ClassifyExport ==
  /\ pc = "exports"
  /\ idx <= Len(allExports)
  /\ unusedExports' = IF ExportIsUnused(allExports[idx], opts, fileContents)
                      THEN Push(unusedExports, allExports[idx])
                      ELSE unusedExports
  /\ idx' = idx + 1
  /\ UNCHANGED << disk, opts, files, allExports, allFunctions, fileContents,
                  unusedFunctions, report, pc, binding, imports >>

\* if (!opts.exportsOnly) of line 233
ChecksFunctions(o) == ~o.exportsOnly

EndExports ==
  /\ pc = "exports"
  /\ idx > Len(allExports)
  /\ pc' = IF ChecksFunctions(opts) THEN "functions" ELSE "display"
  /\ idx' = 1
  /\ UNCHANGED << mainVars, binding, imports >>

(***************************************************************************)
(* main, pass two: functions                                               *)
(***************************************************************************)

\* AlsoExported without the test: no function is skipped
AlsoExported_Never(func, exports) == FALSE

\* allExports.some(e => e.name === func.name && e.file === func.file)
AlsoExported(func, exports) ==
  \E k \in 1..Len(exports) :
    exports[k].name = func.name /\ exports[k].file = func.file

\* matches ? matches.length - 1 : 0
UsageCountOf(n) == IF n > 0 THEN n - 1 ELSE 0

UsageCount(name, content) == UsageCountOf(MatchCount("funcName", name, content, 1))

\* whether the iteration for function func (lines 235-255) pushes it
\* lines 240-255 for the text the Map holds for the file of func
UnusedIn(func, content) ==
  /\ content # << >>
  /\ UsageCount(func.name, content) <= 0
  /\ MatchCount("ref", func.name, content, 1) = 0

FunctionIsUnused(func, exports, m) ==
  /\ ~AlsoExported(func, exports)
  /\ UnusedIn(func, MapGet(m, func.file))

\* one iteration of for (const func of allFunctions)
ClassifyFunction ==
  /\ pc = "functions"
  /\ idx <= Len(allFunctions)
  /\ unusedFunctions' = IF FunctionIsUnused(allFunctions[idx], allExports, fileContents)
                        THEN Push(unusedFunctions, allFunctions[idx])
                        ELSE unusedFunctions
  /\ idx' = idx + 1
  /\ UNCHANGED << disk, opts, files, allExports, allFunctions, fileContents,
                  unusedExports, report, pc, binding, imports >>

EndFunctions ==
  /\ pc = "functions"
  /\ idx > Len(allFunctions)
  /\ pc' = "display"
  /\ UNCHANGED << mainVars, idx, binding, imports >>

(***************************************************************************)
(* main, results and report                                                *)
(***************************************************************************)

\* a value that may be null: << >> is null, << v >> holds v
Null == << >>

Some(v) == << v >>

\* the e => ({ name, type, file: path.relative(opts.dir, e.file) }) of the report
ReportEntries(list, o) ==
  [k \in 1..Len(list) |->
     [name |-> list[k].name, type |-> list[k].type,
      file |-> PathRelative(o.dir, list[k].file)]]

\* the report object of lines 339-354 (the timestamp, a clock reading, is left out)
Report(o, fs, exports, functions, unusedE, unusedF) ==
  [filesScanned    |-> Len(fs),
   totalExports    |-> Len(exports),
   totalFunctions  |-> IF o.exportsOnly THEN Null ELSE Some(Len(functions)),
   unusedExports   |-> ReportEntries(unusedE, o),
   unusedFunctions |-> IF o.exportsOnly THEN Null ELSE Some(ReportEntries(unusedF, o))]

\* the test of line 272
NoDeadCode(unusedE, unusedF) == Len(unusedE) = 0 /\ Len(unusedF) = 0

\* lines 272-275: nothing found, main returns
ReturnNoDeadCode ==
  /\ pc = "display"
  /\ NoDeadCode(unusedExports, unusedFunctions)
  /\ pc' = "done"
  /\ UNCHANGED << mainVars, idx, binding, imports >>

\* lines 277-357 with opts.output set: the lists are printed, the report is written
SaveReport ==
  /\ pc = "display"
  /\ ~NoDeadCode(unusedExports, unusedFunctions)
  /\ opts.output # << >>
  /\ report' = Some(Report(opts, files, allExports, allFunctions,
                           unusedExports, unusedFunctions))
  /\ pc' = "done"
  /\ UNCHANGED << disk, opts, files, allExports, allFunctions, fileContents,
                  unusedExports, unusedFunctions, idx, binding, imports >>

\* lines 277-357 without opts.output: the lists are printed
PrintOnly ==
  /\ pc = "display"
  /\ ~NoDeadCode(unusedExports, unusedFunctions)
  /\ opts.output = << >>
  /\ pc' = "done"
  /\ UNCHANGED << mainVars, idx, binding, imports >>

Next ==
  \/ ScanFiles
  \/ ReadFile
  \/ EndPassOne
  \/ ClassifyExport
  \/ EndExports
  \/ ClassifyFunction
  \/ EndFunctions
  \/ ReturnNoDeadCode
  \/ SaveReport
  \/ PrintOnly

Spec == Init /\ [][Next]_vars

(***************************************************************************)
(* findImports on its own: one statement that binds a renamed name         *)
(***************************************************************************)

BindingNames3 == { << "a" >>, << "b" >>, << "f","o","o" >> }

\* a statement that imports orig under the name alias: an import or a
\* destructured require, with or without blanks inside the braces, alone or
\* with a binding of a third name in front of it or after it
Bindings ==
  { b \in [form : { "import", "require" }, orig : BindingNames3, alias : BindingNames3,
           other : { "none", "before", "after" }, blanks : BOOLEAN] :
      b.orig # b.alias }

ThirdName(b) == CHOOSE n \in BindingNames3 : n # b.orig /\ n # b.alias

Blank(b) == IF b.blanks THEN << " " >> ELSE << >>

\* orig as alias, or orig: alias
Renaming(b) ==
  IF b.form = "import"
  THEN b.orig \o << " ","a","s"," " >> \o b.alias
  ELSE b.orig \o << ":" >> \o Blank(b) \o b.alias

BindingList(b) ==
  CASE b.other = "none"   -> Renaming(b)
    [] b.other = "before" -> ThirdName(b) \o << "," >> \o Blank(b) \o Renaming(b)
    [] b.other = "after"  -> Renaming(b) \o << "," >> \o Blank(b) \o ThirdName(b)

\* import { ... } from 'm';   or   const { ... } = require('m');
Statement(b) ==
  IF b.form = "import"
  THEN kwImport \o << " ","{" >> \o Blank(b) \o BindingList(b) \o Blank(b)
       \o << "}"," " >> \o kwFrom \o << " ","'","m","'",";" >>
  ELSE kwConst \o << " ","{" >> \o Blank(b) \o BindingList(b) \o Blank(b)
       \o << "}"," ","="," " >> \o kwRequire \o << "'","m","'",")",";" >>

InitImports ==
  /\ binding \in Bindings
  /\ imports = { }
  /\ pc = "statement"
  /\ disk = { }
  /\ opts = [dir |-> dirDot, exportsOnly |-> FALSE, output |-> << >>]
  /\ files = << >>
  /\ allExports = << >>
  /\ allFunctions = << >>
  /\ fileContents = << >>
  /\ unusedExports = << >>
  /\ unusedFunctions = << >>
  /\ report = << >>
  /\ idx = 1

\* const imports = findImports(content)
ApplyFindImports ==
  /\ pc = "statement"
  /\ imports' = findImports(Statement(binding))
  /\ pc' = "imports"
  /\ UNCHANGED << mainVars, idx, binding >>

NextImports == ApplyFindImports

SpecImports == InitImports /\ [][NextImports]_vars

(***************************************************************************)
(* Properties                                                              *)
(***************************************************************************)

nameHelper == << "h","e","l","p","e","r" >>

\* the exports pass is over
ExportsDone == pc \in { "functions", "display", "done" }

\* the number of entries of allExports the exports pass has gone through
ClassifiedExports ==
  IF pc = "exports" THEN idx - 1
  ELSE IF ExportsDone THEN Len(allExports)
  ELSE 0

\* the number of entries of allFunctions the functions pass has gone through
ClassifiedFunctions ==
  IF pc = "functions" THEN idx - 1
  ELSE IF pc \in { "display", "done" } /\ ~opts.exportsOnly THEN Len(allFunctions)
  ELSE 0

\* the files of the file set that readFileSync reads
ReadableFiles == { f \in Range(files) : OnDisk(f).readable }

\* name stands at position i of text, with no word character on either side
WholeWordAt(name, text, i) ==
  /\ i + Len(name) - 1 <= Len(text)
  /\ SubSeq(text, i, i + Len(name) - 1) = name
  /\ (i = 1 \/ text[i - 1] \notin WordChars)
  /\ (i + Len(name) > Len(text) \/ text[i + Len(name)] \notin WordChars)

\* the positions of the whole-word occurrences of name in text
WholeWordPositions(name, text) == { i \in 1..Len(text) : WholeWordAt(name, text, i) }

\* a read file other than the declaring one imports the name of D or holds
\* it as a whole word
UsedOutside(D) ==
  \E G \in ReadableFiles :
    /\ G # D.file
    /\ \/ D.name \in findImports(OnDisk(G).text)
       \/ WholeWordPositions(D.name, OnDisk(G).text) # { }

dotJs  == << ".","j","s" >>
dotJsx == << ".","j","s","x" >>
dotTs  == << ".","t","s" >>
dotTsx == << ".","t","s","x" >>

HasSuffix(p, suffix) ==
  /\ Len(p) >= Len(suffix)
  /\ SubSeq(p, Len(p) - Len(suffix) + 1, Len(p)) = suffix

\* the path ends in index, main or app (app in any case) and one of the four
\* extensions
MatchesEntryPattern(p) ==
  \E ext \in { dotJs, dotJsx, dotTs, dotTsx } :
    \/ HasSuffix(p, stemIndex \o ext)
    \/ HasSuffix(p, stemMain \o ext)
    \/ HasSuffix(Fold(p, TRUE), stemApp \o ext)

\* C2: no export of a file whose relative path matches an entry-point pattern
\* is in the unused-exports list; with the two files src/util.ts and
\* src/main.ts the list is exactly helper of src/util.ts.
C2_EntryPointNeverUnused ==
  /\ \A k \in 1..Len(unusedExports) :
       ~MatchesEntryPattern(PathRelative(opts.dir, unusedExports[k].file))
  /\ (ExportsDone /\ Range(files) = { pathUtil, pathMain })
       => unusedExports = << Decl(nameHelper, "named", pathUtil) >>

\* C2 witness: the two-file run is over, the export of src/main.ts is in the
\* export table and helper is the only unused export
C2_Witness ==
  /\ pc = "done"
  /\ files = << pathUtil, pathMain >>
  /\ \E k \in 1..Len(allExports) : allExports[k].file = pathMain
  /\ unusedExports = << Decl(nameHelper, "named", pathUtil) >>

SameDeclaration(a, b) == a.name = b.name /\ a.file = b.file

\* C4: no (name, file) is in both lists, and no function whose (name, file)
\* is that of a recorded export is in the unused-functions list.
C4_NoDeclarationInBothLists ==
  /\ \A a \in 1..Len(unusedExports) : \A b \in 1..Len(unusedFunctions) :
       ~SameDeclaration(unusedExports[a], unusedFunctions[b])
  /\ \A e \in 1..Len(allExports) : \A b \in 1..Len(unusedFunctions) :
       ~SameDeclaration(allExports[e], unusedFunctions[b])

\* C4 witness: the functions pass is over; one function is also an unused
\* export, another is also an export of an entry point, and neither is
\* called or referenced in its file
C4_Witness ==
  /\ pc = "done"
  /\ ~opts.exportsOnly
  /\ \E f \in 1..Len(allFunctions) : \E e \in 1..Len(unusedExports) :
       /\ SameDeclaration(allFunctions[f], unusedExports[e])
       /\ UnusedIn(allFunctions[f], MapGet(fileContents, allFunctions[f].file))
  /\ \E f \in 1..Len(allFunctions) : \E e \in 1..Len(allExports) :
       /\ SameDeclaration(allFunctions[f], allExports[e])
       /\ IsEntryPoint(PathRelative(opts.dir, allExports[e].file))
       /\ UnusedIn(allFunctions[f], MapGet(fileContents, allFunctions[f].file))

\* C5: in exports-only mode the function table and the unused-functions list
\* are empty throughout, and a written report holds null for totalFunctions
\* and unusedFunctions.
C5_ExportsOnlyNoFunctions ==
  opts.exportsOnly =>
    /\ allFunctions = << >>
    /\ unusedFunctions = << >>
    /\ report # << >> =>
         report[1].totalFunctions = Null /\ report[1].unusedFunctions = Null

\* C5 witness: an exports-only run has written its report, and a file it
\* read declares functions
C5_Witness ==
  /\ opts.exportsOnly
  /\ report # << >>
  /\ \E k \in 1..Len(fileContents) :
       extractFunctions(fileContents[k].content, fileContents[k].file) # << >>

\* the function is not also an export of its file
NotExported(f) ==
  \A e \in 1..Len(allExports) : ~SameDeclaration(allExports[e], f)

\* the number of places of text where name, as a word, is followed by a call
\* parenthesis
CallSites(name, text) ==
  Cardinality({ i \in WholeWordPositions(name, text) :
                  LitAt(text, SkipWs(text, i + Len(name)), << "(" >>) })

\* the name stands in text once only: at the definition
OnlyDefined(name, text) == Cardinality(WholeWordPositions(name, text)) = 1

\* C3: a plain function that is not exported, whose name is followed by a
\* call parenthesis once in its file and stands nowhere else in it, is in the
\* unused-functions list; one whose name is followed by a call parenthesis
\* twice or more is not.
C3_PlainFunctionCalledOnceIsUnused ==
  \A k \in 1..ClassifiedFunctions :
    (allFunctions[k].type = "function" /\ NotExported(allFunctions[k])) =>
      /\ ( /\ CallSites(allFunctions[k].name, OnDisk(allFunctions[k].file).text) = 1
           /\ OnlyDefined(allFunctions[k].name, OnDisk(allFunctions[k].file).text) )
           => allFunctions[k] \in Range(unusedFunctions)
      /\ CallSites(allFunctions[k].name, OnDisk(allFunctions[k].file).text) >= 2
           => allFunctions[k] \notin Range(unusedFunctions)

\* C6: an arrow function that is not exported and whose name stands in its
\* file at the definition only is in the unused-functions list, with kind arrow.
C6_UnusedArrowIsReported ==
  \A k \in 1..ClassifiedFunctions :
    ( /\ allFunctions[k].type = "arrow"
      /\ NotExported(allFunctions[k])
      /\ OnlyDefined(allFunctions[k].name, OnDisk(allFunctions[k].file).text) )
      => allFunctions[k] \in Range(unusedFunctions)

\* C9: a run that ends with an output path set has written the report.
C9_ReportWritten ==
  (pc = "done" /\ opts.output # << >>)
    => report = Some(Report(opts, files, allExports, allFunctions,
                            unusedExports, unusedFunctions))

\* the files of the file set that are read, in the order of the file set
ReadSeq == SelectSeq(files, LAMBDA f : OnDisk(f).readable)

\* the tables and lists of a run over a file set fs of readable files only
RefContents(fs) == [k \in 1..Len(fs) |-> [file |-> fs[k], content |-> OnDisk(fs[k]).text]]

RefExports(fs) == Flatten([k \in 1..Len(fs) |-> extractExports(OnDisk(fs[k]).text, fs[k])])

RefFunctions(fs) ==
  IF opts.exportsOnly THEN << >>
  ELSE Flatten([k \in 1..Len(fs) |-> extractFunctions(OnDisk(fs[k]).text, fs[k])])

RefUnusedExports(fs) ==
  SelectSeq(RefExports(fs), LAMBDA e : ExportIsUnused(e, opts, RefContents(fs)))

RefUnusedFunctions(fs) ==
  SelectSeq(RefFunctions(fs),
            LAMBDA f : FunctionIsUnused(f, RefExports(fs), RefContents(fs)))

\* C8: a file whose read fails does not stop the run and leaves nothing in
\* the tables; the tables when pass one ends and the lists when the run ends
\* are those of the run over the file set without the files whose read fails.
C8_FailedReadIsAsAbsent ==
  /\ (pc = "exports" /\ idx = 1) =>
       /\ fileContents = RefContents(ReadSeq)
       /\ allExports = RefExports(ReadSeq)
       /\ allFunctions = RefFunctions(ReadSeq)
  /\ pc = "done" =>
       /\ unusedExports = RefUnusedExports(ReadSeq)
       /\ unusedFunctions = RefUnusedFunctions(ReadSeq)

\* C8 witness: the run is over, a file could not be read, and an export whose
\* name stands in the text of that file is reported unused
C8_Witness ==
  /\ pc = "done"
  /\ \E f \in Range(files) : \E k \in 1..Len(unusedExports) :
       /\ ~OnDisk(f).readable
       /\ WholeWordPositions(unusedExports[k].name, OnDisk(f).text) # { }

IsPrefix(a, b) == Len(a) <= Len(b) /\ SubSeq(b, 1, Len(a)) = a

\* a is b with some entries left out
RECURSIVE IsSubSeq(_, _)
IsSubSeq(a, b) ==
  IF a = << >> THEN TRUE
  ELSE IF b = << >> THEN FALSE
  ELSE IF Head(a) = Head(b) THEN IsSubSeq(Tail(a), Tail(b))
  ELSE IsSubSeq(a, Tail(b))

InPassOne == pc \in { "scan", "read" }

\* C10: in pass one the three tables only grow at the end; nothing is
\* classified until every file was read or skipped; in pass two the tables do
\* not change; the two lists are the tables with entries left out.
C10_TwoOrderedPasses ==
  /\ [][InPassOne =>
          /\ IsPrefix(allExports, allExports')
          /\ IsPrefix(allFunctions, allFunctions')
          /\ IsPrefix(fileContents, fileContents')]_vars
  /\ [][~InPassOne =>
          UNCHANGED << allExports, allFunctions, fileContents >>]_vars
  /\ [][(unusedExports' # unusedExports \/ unusedFunctions' # unusedFunctions)
          => ~InPassOne]_vars
  /\ [](~InPassOne =>
          ReadableFiles = { fileContents[k].file : k \in 1..Len(fileContents) })
  /\ [](IsSubSeq(unusedExports, allExports) /\ IsSubSeq(unusedFunctions, allFunctions))

\* C10 witness: pass two is over with two files read, and the unused-exports
\* list is the export table with an entry left out
C10_Witness ==
  /\ pc = "done"
  /\ Len(fileContents) = 2
  /\ Len(unusedExports) >= 1
  /\ Len(unusedExports) < Len(allExports)

\* C7: for a renamed binding, in an import and in a destructured require,
\* the result of findImports holds the alias and not the original name.
C7_RenamedBindingGivesAlias ==
  pc = "imports" => (binding.alias \in imports /\ binding.orig \notin imports)

====
